---- MODULE Spec2Model ----
(***************************************************************************)
(* libmsgpack (src/mp.hpp): a MessagePack codec over one caller-owned,     *)
(* fixed-capacity buffer, with a bounds-checked read cursor and write      *)
(* cursor (stream::StreamReader / stream::StreamWriter) and the codec      *)
(* mp::MessagePack on top of them.                                         *)
(*                                                                         *)
(* Representation.  A byte is an integer 0..255.  A fixed-width integer    *)
(* value of the program is the tuple of its bytes, most significant first  *)
(* (a u16 is a 2-tuple, a u64 an 8-tuple), so that 64-bit values are exact *)
(* and a byte swap is a real permutation.  The host is little-endian (the  *)
(* library is built with MSVC/x86 intrinsics): the memory image of a value *)
(* is its bytes least significant first (ToMem / FromMem).                 *)
(***************************************************************************)
EXTENDS Integers, Sequences, FiniteSets, TLC

VARIABLES
    mem,    \* the caller's buffer: offset -> byte
    sr,     \* StreamReader: position_, stream_size_, buffer_, reader_
    wr,     \* StreamWriter: position_, stream_size_, buffer_, writer_
    ret,    \* the last call: its name, arguments, the cursors before it, its result
    copied, \* offsets of the buffer handed to the writer's copy function by the last call
    log,    \* the writes that reached the buffer since it was last cleared, in order
            \* (in SpecReplay, where nothing is written: the decodes and rewinds made)
    nops    \* calls made so far

vars == <<mem, sr, wr, ret, copied, log, nops>>

---------------------------------------------------------------------------
(* Bounds of the model *)

\* bytes of caller memory behind the buffer pointer
MemSize == 20
\* calls per behaviour
MaxOps == 3

---------------------------------------------------------------------------
(* Bytes and fixed-width values *)

Byte == 0..255

Zeros(n) == [i \in 1..n |-> 0]

Reverse(s) == [i \in 1..Len(s) |-> s[Len(s) + 1 - i]]

\* bit k (0 = least significant) of byte b
Bit(b, k) == (b \div (2 ^ k)) % 2

\* b & m and b | m on bytes
BitAnd(b, m) ==
    LET f[k \in 0..8] == IF k = 8 THEN 0 ELSE (2 ^ k) * Bit(b, k) * Bit(m, k) + f[k + 1]
    IN f[0]

BitOr(b, m) == b + m - BitAnd(b, m)

\* zero extension of a value to w bytes (an integral conversion to a wider unsigned type)
ZeroExtend(v, w) == [i \in 1..w |-> IF i <= w - Len(v) THEN 0 ELSE v[i - (w - Len(v))]]

\* sign extension of a value to w bytes (conversion of a signed value to mp_u64)
SignExtend(v, w) ==
    [i \in 1..w |-> IF i <= w - Len(v) THEN (IF v[1] >= 128 THEN 255 ELSE 0)
                    ELSE v[i - (w - Len(v))]]

\* static_cast to a narrower unsigned type: the low w bytes
Truncate(v, w) == SubSeq(v, Len(v) - w + 1, Len(v))

\* unsigned comparison a <= b of two values of the same width
RECURSIVE LeqU(_, _)
LeqU(a, b) ==
    IF Len(a) = 0 THEN TRUE
    ELSE IF a[1] < b[1] THEN TRUE
    ELSE IF a[1] > b[1] THEN FALSE
    ELSE LeqU(Tail(a), Tail(b))

\* a value given by its significant bytes, as an mp_u64
U64(s) == ZeroExtend(s, 8)

\* the signed 8-bit integer a byte holds, and back
AsI8(b) == IF b >= 128 THEN b - 256 ELSE b
OfI8(x) == IF x < 0 THEN x + 256 ELSE x

\* little-endian host: the bytes of a value in memory, and the value of bytes in memory
ToMem(v) == Reverse(v)
FromMem(bytes) == Reverse(bytes)

\* faulty variant: the byte swap left out
bswap_intrin_Identity(v) == v

\* bswap_intrin16 / 32 / 64
bswap_intrin(v) == Reverse(v)

\* a pointer argument: null, or the bytes it points to
NullPtr == [null |-> TRUE, bytes |-> <<>>]
Ptr(bytes) == [null |-> FALSE, bytes |-> bytes]

---------------------------------------------------------------------------
(* stream::StreamReader / stream::StreamWriter *)

\* a default-constructed cursor
NewStream == [position |-> 0, stream_size |-> 0, buffer |-> FALSE, copy_fn |-> FALSE]

\* explicit operator bool
StreamValid(s) == s.copy_fn /\ s.buffer

stream_set(position, stream_size, buffer, fn) ==
    [position |-> position, stream_size |-> stream_size, buffer |-> buffer, copy_fn |-> fn]

\* faulty variant: the cursor stays where it is
reset_cursor_Stay(s) == s

reset_cursor(s) == [s EXCEPT !.position = 0]

\* faulty variant: the guard without its end-of-buffer test
GuardRejects_NoEndCheck(s, count, ptr) ==
    \/ count = 0
    \/ ptr.null
    \/ count >= s.stream_size
    \/ ~StreamValid(s)

\* faulty variant: the guard admitting a request of the whole capacity
GuardRejects_AllowsFull(s, count, ptr) ==
    \/ count = 0
    \/ ptr.null
    \/ count > s.stream_size
    \/ s.position + count > s.stream_size
    \/ ~StreamValid(s)

\* faulty variant: a request ending exactly at the end of the buffer is rejected
GuardRejects_EndExclusive(s, count, ptr) ==
    \/ count = 0
    \/ ptr.null
    \/ count >= s.stream_size
    \/ s.position + count >= s.stream_size
    \/ ~StreamValid(s)

\* the guard of _write_and_advance and of _read_and_advance
GuardRejects(s, count, ptr) ==
    \/ count = 0
    \/ ptr.null
    \/ count >= s.stream_size
    \/ s.position + count > s.stream_size
    \/ ~StreamValid(s)

\* the copy function on the buffer: count bytes of src to offset off
CopyIn(m, off, count, src) ==
    [i \in DOMAIN m |-> IF i >= off /\ i < off + count THEN src[i - off + 1] ELSE m[i]]

\* the byte the reader's copy function finds at offset i; offsets outside the
\* caller's memory hold bytes the program does not control
MemAt(m, i) == IF i \in DOMAIN m THEN m[i] ELSE 204

\* a write environment: the buffer, the write cursor, the offsets copied to
WEnv(m, w) == [mem |-> m, wr |-> w, cp |-> {}]

write_and_advance(E, count, src) ==
    IF GuardRejects(E.wr, count, src) THEN E
    ELSE [mem |-> CopyIn(E.mem, E.wr.position, count, src.bytes),
          wr  |-> [E.wr EXCEPT !.position = @ + count],
          cp  |-> E.cp \cup (E.wr.position .. (E.wr.position + count - 1))]

\* write_pod<Ty>( value ): the memory image of the value is copied
write_pod(E, v) == write_and_advance(E, Len(v), Ptr(ToMem(v)))

\* StreamWriter::write( count, src )
stream_write(E, count, src) == write_and_advance(E, count, src)

\* faulty variant: the buffer is zeroed and the cursor is left where it was
stream_clear_KeepsCursor(E) ==
    [mem |-> [i \in DOMAIN E.mem |-> IF i < E.wr.stream_size THEN 0 ELSE E.mem[i]],
     wr  |-> E.wr,
     cp  |-> E.cp]

\* StreamWriter::clear
stream_clear(E) ==
    [mem |-> [i \in DOMAIN E.mem |-> IF i < E.wr.stream_size THEN 0 ELSE E.mem[i]],
     wr  |-> reset_cursor(E.wr),
     cp  |-> E.cp]

\* _read_and_advance: the cursor afterwards and the destination afterwards
\* faulty variant: the bytes are copied from the start of the buffer
read_and_advance_FromStart(m, s, count, dst, peek) ==
    IF GuardRejects(s, count, dst) THEN [sr |-> s, dst |-> dst]
    ELSE [sr  |-> IF peek THEN s ELSE [s EXCEPT !.position = @ + count],
          dst |-> Ptr([i \in 1..Len(dst.bytes) |->
                          IF i <= count THEN MemAt(m, i - 1) ELSE dst.bytes[i]])]

read_and_advance(m, s, count, dst, peek) ==
    IF GuardRejects(s, count, dst) THEN [sr |-> s, dst |-> dst]
    ELSE [sr  |-> IF peek THEN s ELSE [s EXCEPT !.position = @ + count],
          dst |-> Ptr([i \in 1..Len(dst.bytes) |->
                          IF i <= count THEN MemAt(m, s.position + i - 1)
                          ELSE dst.bytes[i]])]

\* faulty variant: the pod is left uninitialised
read_pod_Uninit(m, s, w, peek) ==
    LET r == read_and_advance(m, s, w, Ptr([i \in 1..w |-> 204]), peek)
    IN [sr |-> r.sr, val |-> FromMem(r.dst.bytes)]

\* _read_pod<Ty>: a zero-initialised pod of w bytes is the destination
read_pod(m, s, w, peek) ==
    LET r == read_and_advance(m, s, w, Ptr(Zeros(w)), peek)
    IN [sr |-> r.sr, val |-> FromMem(r.dst.bytes)]

---------------------------------------------------------------------------
(* mp::MPMarker, limits, mp::value_limits *)

PosFixInt == 0
FixMap == 128
FixArray == 144
FixStr == 160
Nil == 192
Unused == 193
False == 194
True == 195
Bin8 == 196
Bin16 == 197
Bin32 == 198
Ext8 == 199
Ext16 == 200
Ext32 == 201
Float32 == 202
Float64 == 203
Uint8 == 204
Uint16 == 205
Uint32 == 206
Uint64 == 207
Int8 == 208
Int16 == 209
Int32 == 210
Int64 == 211
FixExt1 == 212
FixExt2 == 213
FixExt4 == 214
FixExt8 == 215
FixExt16 == 216
Str8 == 217
Str16 == 218
Str32 == 219
Array16 == 220
Array32 == 221
Map16 == 222
Map32 == 223
NegFixInt == 224

uint8_max == U64(<<255>>)
uint16_max == U64(<<255, 255>>)
uint32_max == U64(<<255, 255, 255, 255>>)
PosFixIntMax == U64(<<127>>)
FixArrayMax == U64(<<15>>)
Array16Max == U64(<<255, 255>>)
FixMapMax == U64(<<15>>)
Map16Max == U64(<<255, 255>>)
Map32Max == U64(<<255, 255, 255, 255>>)

---------------------------------------------------------------------------
(* mp::MPDecodeResult *)

\* bytes of the result union (its largest member is as_fixstr[ 31 ])
ResultBytes == 31

\* MPDecodeResult dr { }: marker, size (an mp_u32) and the union, as its memory image
NewResult(mk) == [marker |-> mk, size |-> Zeros(4), result |-> Zeros(ResultBytes)]

\* a store of bytes into the union at byte offset off (0-based)
Store(img, off, bytes) ==
    [i \in 1..Len(img) |->
        IF i > off /\ i <= off + Len(bytes) THEN bytes[i - off] ELSE img[i]]

\* the members of the union, read out of its memory image
as_u8(dr) == <<dr.result[1]>>
as_u16(dr) == FromMem(SubSeq(dr.result, 1, 2))
as_u32(dr) == FromMem(SubSeq(dr.result, 1, 4))
as_u64(dr) == FromMem(SubSeq(dr.result, 1, 8))
as_i8(dr) == AsI8(dr.result[1])
ext_type(dr) == dr.result[1]
ext_data(dr, n) == SubSeq(dr.result, 2, n + 1)
as_fixstr(dr, n) == SubSeq(dr.result, 1, n)

\* MPDecodeResult::operator bool
ResultOk(dr) == dr.marker # Unused

\* MessagePack::is_fixext
is_fixext(mk) == mk \in {FixExt1, FixExt2, FixExt4, FixExt8, FixExt16}

---------------------------------------------------------------------------
(* mp::MessagePack, encode path *)

\* the data argument of write_raw_value: an integer value, or a pointer
\* reinterpreted as one
DataVal(v) == [val |-> v, ptr |-> NullPtr]
DataPtr(p) == [val |-> Zeros(8), ptr |-> p]

\* data & mask, for a mask that fits the low byte
LowByteAnd(v, mask) == BitAnd(v[Len(v)], mask)

write_marker(E, mk) == write_pod(E, <<mk>>)

\* faulty variant: values below -32 saturate at -32 instead of wrapping
write_negfixint_Saturate(E, value) ==
    write_pod(E, <<IF AsI8(value[1]) < -32 THEN 224 ELSE BitOr(224, BitAnd(value[1], 31))>>)

write_negfixint(E, value) == write_pod(E, <<BitOr(224, BitAnd(value[1], 31))>>)

\* the number of bytes an mp_u32 count asks for; a count of 2^31 or more is
\* above every stream size, and the guard rejects all such counts alike
CountOf(length) ==
    IF length[1] >= 128 THEN 2147483647
    ELSE ((length[1] * 256 + length[2]) * 256 + length[3]) * 256 + length[4]

\* Bin8/16/32 and Str8/16/32: the form is chosen by size; a size above
\* uint32_max gets no header, and its low 32 bits are the payload count
write_family(E, data, size, m8, m16, m32) ==
    LET length == Truncate(size, 4)
        hdr == IF LeqU(size, uint8_max)
                 THEN write_pod(write_marker(E, m8), Truncate(length, 1))
               ELSE IF LeqU(size, uint16_max)
                 THEN write_pod(write_marker(E, m16), bswap_intrin(Truncate(length, 2)))
               ELSE IF LeqU(size, uint32_max)
                 THEN write_pod(write_marker(E, m32), bswap_intrin(length))
               ELSE E
    IN stream_write(hdr, CountOf(length), data.ptr)

write_raw_value(E, data, size, kind) ==
    IF kind = NegFixInt THEN
        write_pod(E, <<BitOr(224, LowByteAnd(data.val, 31))>>)
    ELSE IF kind = PosFixInt THEN
        write_pod(E, <<LowByteAnd(data.val, 127)>>)
    ELSE IF kind = FixStr THEN
        LET length == LowByteAnd(size, 31)
        IN stream_write(write_pod(E, <<BitOr(kind, length)>>), length, data.ptr)
    ELSE IF kind \in {Nil, False, True} THEN
        write_marker(E, kind)
    ELSE IF kind \in {Bin8, Bin16, Bin32} THEN
        write_family(E, data, size, Bin8, Bin16, Bin32)
    ELSE IF kind \in {Str8, Str16, Str32} THEN
        write_family(E, data, size, Str8, Str16, Str32)
    ELSE
        LET M == write_marker(E, kind)
        IN IF kind \in {Uint8, Int8} THEN write_pod(M, Truncate(data.val, 1))
           ELSE IF kind \in {Uint16, Int16} THEN
               write_pod(M, bswap_intrin(Truncate(data.val, 2)))
           ELSE IF kind \in {Uint32, Int32} THEN
               write_pod(M, bswap_intrin(Truncate(data.val, 4)))
           ELSE IF kind \in {Uint64, Int64} THEN
               write_pod(M, bswap_intrin(data.val))
           ELSE IF kind = FixExt1 THEN stream_write(M, 2, data.ptr)
           ELSE IF kind = FixExt2 THEN stream_write(M, 3, data.ptr)
           ELSE IF kind = FixExt4 THEN stream_write(M, 5, data.ptr)
           ELSE IF kind = FixExt8 THEN stream_write(M, 9, data.ptr)
           ELSE IF kind = FixExt16 THEN stream_write(M, 17, data.ptr)
           ELSE M

\* the typed calls; a signed argument is converted to mp_u64 by sign extension
mp_write_u8(E, v) == write_raw_value(E, DataVal(ZeroExtend(v, 8)), U64(<<1>>), Uint8)
mp_write_u16(E, v) == write_raw_value(E, DataVal(ZeroExtend(v, 8)), U64(<<2>>), Uint16)
mp_write_u32(E, v) == write_raw_value(E, DataVal(ZeroExtend(v, 8)), U64(<<4>>), Uint32)
mp_write_u64(E, v) == write_raw_value(E, DataVal(v), U64(<<8>>), Uint64)
mp_write_i8(E, v) == write_raw_value(E, DataVal(SignExtend(v, 8)), U64(<<1>>), Int8)
mp_write_i16(E, v) == write_raw_value(E, DataVal(SignExtend(v, 8)), U64(<<2>>), Int16)
mp_write_i32(E, v) == write_raw_value(E, DataVal(SignExtend(v, 8)), U64(<<4>>), Int32)
mp_write_i64(E, v) == write_raw_value(E, DataVal(v), U64(<<8>>), Int64)

write_posfixint(E, v) == write_raw_value(E, DataVal(ZeroExtend(v, 8)), U64(<<1>>), PosFixInt)

\* write_fixint( mp_i8 value ): value > 0 as a signed comparison
write_fixint(E, v) ==
    IF AsI8(v[1]) > 0 THEN write_posfixint(E, v) ELSE write_negfixint(E, v)

\* faulty variant: the Uint8 form chosen one value too early
write_uint_OffByOne(E, value) ==
    IF ~LeqU(PosFixIntMax, value) THEN write_posfixint(E, <<LowByteAnd(value, 127)>>)
    ELSE IF LeqU(value, uint8_max) THEN mp_write_u8(E, Truncate(value, 1))
    ELSE IF LeqU(value, uint16_max) THEN mp_write_u16(E, Truncate(value, 2))
    ELSE IF LeqU(value, uint32_max) THEN mp_write_u32(E, Truncate(value, 4))
    ELSE mp_write_u64(E, value)

write_uint(E, value) ==
    IF LeqU(value, PosFixIntMax) THEN write_posfixint(E, <<LowByteAnd(value, 127)>>)
    ELSE IF LeqU(value, uint8_max) THEN mp_write_u8(E, Truncate(value, 1))
    ELSE IF LeqU(value, uint16_max) THEN mp_write_u16(E, Truncate(value, 2))
    ELSE IF LeqU(value, uint32_max) THEN mp_write_u32(E, Truncate(value, 4))
    ELSE mp_write_u64(E, value)

start_array(E, num_elem) ==
    IF LeqU(num_elem, FixArrayMax) THEN
        write_pod(E, <<BitOr(FixArray, LowByteAnd(num_elem, 15))>>)
    ELSE IF LeqU(num_elem, Array16Max) THEN
        write_pod(write_marker(E, Array16), bswap_intrin(Truncate(num_elem, 2)))
    ELSE
        write_pod(write_marker(E, Array32), bswap_intrin(Truncate(num_elem, 4)))

start_map(E, num_pairs) ==
    IF LeqU(num_pairs, Map16Max) THEN
        write_pod(E, <<BitOr(FixMap, LowByteAnd(num_pairs, 15))>>)
    ELSE IF LeqU(num_pairs, Map32Max) THEN
        write_pod(write_marker(E, Map16), bswap_intrin(Truncate(num_pairs, 2)))
    ELSE
        write_pod(write_marker(E, Map32), bswap_intrin(Truncate(num_pairs, 4)))

---------------------------------------------------------------------------
(* mp::MessagePack, decode path *)

\* MessagePack::read_u8 / read_u16 / read_u32 / read_u64 (and the signed
\* ones): the cursor's typed read, byte-swapped for the wider types
mp_read_u8(m, s) == read_pod(m, s, 1, FALSE)
mp_read_i8(m, s) == read_pod(m, s, 1, FALSE)

mp_read_swapped(m, s, w) ==
    LET r == read_pod(m, s, w, FALSE) IN [sr |-> r.sr, val |-> bswap_intrin(r.val)]

mp_read_u16(m, s) == mp_read_swapped(m, s, 2)
mp_read_u32(m, s) == mp_read_swapped(m, s, 4)
mp_read_u64(m, s) == mp_read_swapped(m, s, 8)
mp_read_i16(m, s) == mp_read_swapped(m, s, 2)
mp_read_i32(m, s) == mp_read_swapped(m, s, 4)
mp_read_i64(m, s) == mp_read_swapped(m, s, 8)

\* a decoding step in progress: the read cursor and the result so far
DState(s, dr) == [sr |-> s, dr |-> dr]

\* dr.size = <value read>, converted to mp_u32
SetSize(r, dr) == DState(r.sr, [dr EXCEPT !.size = ZeroExtend(r.val, 4)])

\* dr.size = n; dr.result.<integer member> = <value read>
SetValue(r, dr, n) ==
    DState(r.sr, [dr EXCEPT !.size = <<0, 0, 0, n>>,
                            !.result = Store(@, 0, ToMem(r.val))])

\* dr.size = n; dr.result.as_bool = b
SetBool(s, dr, b) ==
    DState(s, [dr EXCEPT !.size = <<0, 0, 0, 1>>, !.result = Store(@, 0, <<b>>)])

\* sr_.read( count, <union member at byte offset off> )
ReadInto(m, D, off, count) ==
    LET r == read_and_advance(m, D.sr, count,
                              Ptr(SubSeq(D.dr.result, off + 1, ResultBytes)), FALSE)
    IN DState(r.sr, [D.dr EXCEPT !.result = Store(@, off, r.dst.bytes)])

\* the FixExt cases: the size, the type byte, then the data bytes (FixExt1
\* reads its one data byte with read_u8, the others with sr_.read)
DecodeFixExt(m, s, dr, n) ==
    LET t == mp_read_u8(m, s)
        D == DState(t.sr, [dr EXCEPT !.size = <<0, 0, 0, n + 1>>,
                                     !.result = Store(@, 0, t.val)])
    IN IF n = 1
       THEN LET d == mp_read_u8(m, D.sr)
            IN DState(d.sr, [D.dr EXCEPT !.result = Store(@, 1, d.val)])
       ELSE ReadInto(m, D, 1, n)

\* the switch over the point markers
DecodeSwitch(m, s, dr) ==
    LET mk == dr.marker
    IN IF mk \in {PosFixInt, FixMap, FixArray, FixStr, NegFixInt} THEN DState(s, dr)
       ELSE IF mk \in {Nil, False} THEN SetBool(s, dr, 0)
       ELSE IF mk = Unused THEN DState(s, dr)
       ELSE IF mk = True THEN SetBool(s, dr, 1)
       ELSE IF mk \in {Str8, Bin8} THEN SetSize(mp_read_u8(m, s), dr)
       ELSE IF mk \in {Str16, Bin16} THEN SetSize(mp_read_u16(m, s), dr)
       ELSE IF mk \in {Str32, Bin32} THEN SetSize(mp_read_u32(m, s), dr)
       ELSE IF mk = Ext8 THEN SetSize(mp_read_u8(m, s), dr)
       ELSE IF mk = Ext16 THEN SetSize(mp_read_u16(m, s), dr)
       ELSE IF mk = Ext32 THEN SetSize(mp_read_u32(m, s), dr)
       ELSE IF mk \in {Float32, Float64} THEN DState(s, dr)
       ELSE IF mk = Uint8 THEN SetValue(mp_read_u8(m, s), dr, 1)
       ELSE IF mk = Uint16 THEN SetValue(mp_read_u16(m, s), dr, 2)
       ELSE IF mk = Uint32 THEN SetValue(mp_read_u32(m, s), dr, 4)
       ELSE IF mk = Uint64 THEN SetValue(read_pod(m, s, 8, FALSE), dr, 8)
       ELSE IF mk = Int8 THEN SetValue(read_pod(m, s, 1, FALSE), dr, 1)
       ELSE IF mk = Int16 THEN SetValue(mp_read_i16(m, s), dr, 2)
       ELSE IF mk = Int32 THEN SetValue(mp_read_i32(m, s), dr, 4)
       ELSE IF mk = Int64 THEN SetValue(mp_read_i64(m, s), dr, 8)
       ELSE IF mk = FixExt1 THEN DecodeFixExt(m, s, dr, 1)
       ELSE IF mk = FixExt2 THEN DecodeFixExt(m, s, dr, 2)
       ELSE IF mk = FixExt4 THEN DecodeFixExt(m, s, dr, 4)
       ELSE IF mk = FixExt8 THEN DecodeFixExt(m, s, dr, 8)
       ELSE IF mk = FixExt16 THEN DecodeFixExt(m, s, dr, 16)
       ELSE IF mk \in {Map16, Array16} THEN SetSize(read_pod(m, s, 2, FALSE), dr)
       ELSE IF mk \in {Map32, Array32} THEN SetSize(read_pod(m, s, 4, FALSE), dr)
       ELSE DState(s, dr)

\* the cascade over the range-packed markers, in the order of the source
DecodeFallback(m, D, raw) ==
    IF BitAnd(raw, 128) = 0 THEN
        DState(D.sr, [D.dr EXCEPT !.marker = PosFixInt, !.size = <<0, 0, 0, 1>>,
                                  !.result = Store(@, 0, <<BitAnd(raw, 127)>>)])
    ELSE IF BitAnd(raw, 224) = 224 THEN
        DState(D.sr, [D.dr EXCEPT !.marker = NegFixInt, !.size = <<0, 0, 0, 1>>,
                                  !.result = Store(@, 0, <<OfI8(BitAnd(raw, 31) - 32)>>)])
    ELSE IF BitAnd(raw, 128) = 128 THEN
        DState(D.sr, [D.dr EXCEPT !.marker = FixMap, !.size = <<0, 0, 0, BitAnd(raw, 15)>>])
    ELSE IF BitAnd(raw, 144) = 144 THEN
        DState(D.sr, [D.dr EXCEPT !.marker = FixArray, !.size = <<0, 0, 0, BitAnd(raw, 15)>>])
    ELSE IF BitAnd(raw, 160) = 160 THEN
        ReadInto(m, DState(D.sr, [D.dr EXCEPT !.marker = FixStr,
                                              !.size = <<0, 0, 0, BitAnd(raw, 31)>>]),
                 0, BitAnd(raw, 31))
    ELSE D

\* faulty variant: an exhausted or unusable stream is reported as Unused
decode_single_Sentinel(m, s) ==
    LET r == mp_read_u8(m, s)
        raw == r.val[1]
        D == DecodeSwitch(m, r.sr, NewResult(raw))
    IN IF GuardRejects(s, 1, Ptr(<<0>>)) THEN DState(s, NewResult(Unused))
       ELSE IF ~is_fixext(raw) /\ D.dr.size = Zeros(4) THEN DecodeFallback(m, D, raw)
       ELSE D

decode_single(m, s) ==
    LET r == mp_read_u8(m, s)
        raw == r.val[1]
        D == DecodeSwitch(m, r.sr, NewResult(raw))
    IN IF ~is_fixext(raw) /\ D.dr.size = Zeros(4) THEN DecodeFallback(m, D, raw) ELSE D

---------------------------------------------------------------------------
(* Bookkeeping shared by all calls *)

\* the record of a call: name, arguments, the state it started from, its result
Call(op, arg, out) ==
    [op |-> op, arg |-> arg, wr0 |-> wr, sr0 |-> sr, mem0 |-> mem, out |-> out]

NoCall == [op |-> "none", arg |-> <<>>, wr0 |-> NewStream, sr0 |-> NewStream,
           mem0 |-> [i \in 0..(MemSize - 1) |-> 0], out |-> <<>>]

\* the entry a write leaves in the log: where it started and how far the cursor moved
LogEntry(op, arg, E) ==
    [op |-> op, arg |-> arg, at |-> wr.position, len |-> E.wr.position - wr.position]

LogAfter(op, arg, E) ==
    IF E.cp = {} THEN log ELSE Append(log, LogEntry(op, arg, E))

\* the effect of a call on the writer's side: E is the write environment it ends in
\* (limit is the number of calls the behaviour may make)
WriterStep(limit, op, arg, E, l) ==
    /\ nops < limit
    /\ mem' = E.mem
    /\ wr' = E.wr
    /\ copied' = E.cp
    /\ log' = l
    /\ ret' = Call(op, arg, <<>>)
    /\ nops' = nops + 1
    /\ UNCHANGED sr

WriterCallLog(op, arg, E, l) == WriterStep(MaxOps, op, arg, E, l)

WriterCall(op, arg, E) == WriterCallLog(op, arg, E, LogAfter(op, arg, E))

\* the effect of a call on the reader's side: s is the read cursor it ends in
ReaderStep(limit, op, arg, s, out) ==
    /\ nops < limit
    /\ sr' = s
    /\ ret' = Call(op, arg, out)
    /\ copied' = {}
    /\ nops' = nops + 1
    /\ UNCHANGED <<mem, wr, log>>

ReaderCall(op, arg, s, out) == ReaderStep(MaxOps, op, arg, s, out)

---------------------------------------------------------------------------
(* The cursors used directly (tests.cpp, StreamFixture) *)

\* stream sizes and positions the cursors are constructed with
StreamSizes == {0, 2, MemSize}
StartPositions(size) == {p \in {0, size - 1} : p >= 0}

\* values written through the typed calls
PodValues(w) ==
    CASE w = 1 -> {<<97>>}
      [] w = 2 -> {<<1, 2>>}
      [] w = 4 -> {<<11, 173, 240, 13>>}
      [] w = 8 -> {<<1, 2, 3, 4, 5, 6, 7, 8>>}

\* arguments of write( count, src ) and read( count, dst )
RawCounts == {0, 1, 2, MemSize}
SrcPtrs == {NullPtr, Ptr([i \in 1..MemSize |-> 64 + i])}
DstPtrs == {NullPtr, Ptr([i \in 1..MemSize |-> 238])}

StreamInit ==
    /\ mem = [i \in 0..(MemSize - 1) |-> 0]
    /\ \E size \in StreamSizes, b \in BOOLEAN :
          /\ \E p \in StartPositions(size), f \in BOOLEAN : wr = stream_set(p, size, b, f)
          /\ \E p \in StartPositions(size), f \in BOOLEAN : sr = stream_set(p, size, b, f)
    /\ ret = NoCall
    /\ copied = {}
    /\ log = <<>>
    /\ nops = 0

wr_write ==
    \E count \in RawCounts, src \in SrcPtrs :
        WriterCall("write", [count |-> count, src |-> src],
                   stream_write(WEnv(mem, wr), count, src))

wr_write_u8 ==
    \E v \in PodValues(1) : WriterCall("write_u8", v, write_pod(WEnv(mem, wr), v))

wr_write_u16 ==
    \E v \in PodValues(2) : WriterCall("write_u16", v, write_pod(WEnv(mem, wr), v))

wr_write_u32 ==
    \E v \in PodValues(4) : WriterCall("write_u32", v, write_pod(WEnv(mem, wr), v))

wr_write_u64 ==
    \E v \in PodValues(8) : WriterCall("write_u64", v, write_pod(WEnv(mem, wr), v))

wr_reset_cursor ==
    WriterCall("wr_reset_cursor", <<>>, [WEnv(mem, wr) EXCEPT !.wr = reset_cursor(wr)])

\* memset on a null buffer is outside the caller's contract
wr_clear ==
    /\ wr.buffer \/ wr.stream_size = 0
    /\ WriterCallLog("clear", <<>>, stream_clear(WEnv(mem, wr)), <<>>)

sr_read ==
    \E count \in RawCounts, dst \in DstPtrs :
        LET r == read_and_advance(mem, sr, count, dst, FALSE)
        IN ReaderCall("read", [count |-> count, dst |-> dst], r.sr, r.dst)

SrReadPod(op, w, peek) ==
    LET r == read_pod(mem, sr, w, peek) IN ReaderCall(op, w, r.sr, r.val)

sr_read_u8 == SrReadPod("read_u8", 1, FALSE)
sr_read_u16 == SrReadPod("read_u16", 2, FALSE)
sr_read_u32 == SrReadPod("read_u32", 4, FALSE)
sr_read_u64 == SrReadPod("read_u64", 8, FALSE)
sr_peek_u8 == SrReadPod("peek_u8", 1, TRUE)

sr_reset_cursor == ReaderCall("sr_reset_cursor", <<>>, reset_cursor(sr), <<>>)

StreamNext ==
    \/ wr_write
    \/ wr_write_u8
    \/ wr_write_u16
    \/ wr_write_u32
    \/ wr_write_u64
    \/ wr_reset_cursor
    \/ wr_clear
    \/ sr_read
    \/ sr_read_u8
    \/ sr_read_u16
    \/ sr_read_u32
    \/ sr_read_u64
    \/ sr_peek_u8
    \/ sr_reset_cursor

SpecStream == StreamInit /\ [][StreamNext]_vars

---------------------------------------------------------------------------
(* The codec: integers and array headers written, then decoded *)

\* initialize_streams( position, stream_size, buffer, reader, writer ) binds
\* both cursors; the codec's own buffer_ and reader_ copies are never read
initialize_streams(position, stream_size, buffer, reader, writer) ==
    [sr |-> stream_set(position, stream_size, buffer, reader),
     wr |-> stream_set(position, stream_size, buffer, writer)]

\* positions the codec is initialised at: the start, and two bytes before the end
InitPositions == {0, MemSize - 2}

UintValues ==
    {U64(<<0>>), U64(<<127>>), U64(<<128>>), U64(<<255>>), U64(<<1, 0>>), U64(<<1, 2>>),
     U64(<<255, 255>>), U64(<<1, 0, 0>>), U64(<<1, 2, 3, 4>>), U64(<<255, 255, 255, 255>>),
     U64(<<1, 0, 0, 0, 0>>), <<1, 2, 3, 4, 5, 6, 7, 8>>,
     <<255, 255, 255, 255, 255, 255, 255, 255>>}

U8Values == {<<10>>, <<0>>, <<255>>}
I8Values == {<<131>>, <<127>>}
U16Values == {<<255, 255>>, <<1, 2>>, <<0, 0>>}
I16Values == {<<255, 254>>, <<128, 1>>}
U32Values == {<<255, 255, 255, 255>>, <<1, 2, 3, 4>>, <<0, 0, 0, 0>>}
I32Values == {<<255, 255, 255, 254>>, <<128, 0, 0, 1>>}
U64Values == {<<255, 255, 255, 255, 255, 255, 255, 255>>, <<1, 2, 3, 4, 5, 6, 7, 8>>,
              <<0, 0, 0, 0, 0, 0, 0, 0>>}
I64Values == {<<255, 255, 255, 255, 255, 255, 255, 254>>, <<128, 0, 0, 0, 0, 0, 0, 1>>}

\* signed 8-bit arguments of write_fixint: 127, 1, 0, -1, -20, -32, -33, -64, -128
FixintValues == {<<OfI8(x)>> : x \in {127, 1, 0, -1, -20, -32, -33, -64, -128}}

\* element counts of start_array
ArrayCounts ==
    {U64(<<0>>), U64(<<3>>), U64(<<15>>), U64(<<16>>), U64(<<255, 255>>),
     U64(<<1, 0, 0>>), U64(<<1, 2, 3, 4>>)}

CodecInit ==
    /\ mem = [i \in 0..(MemSize - 1) |-> 0]
    /\ sr = NewStream
    /\ wr = NewStream
    /\ ret = NoCall
    /\ copied = {}
    /\ log = <<>>
    /\ nops = 0

mp_initialize_streams ==
    \E p \in InitPositions :
        LET c == initialize_streams(p, MemSize, TRUE, TRUE, TRUE)
        IN /\ nops < MaxOps
           /\ sr' = c.sr
           /\ wr' = c.wr
           /\ ret' = Call("initialize_streams", p, <<>>)
           /\ copied' = {}
           /\ nops' = nops + 1
           /\ UNCHANGED <<mem, log>>

mp_decode_single ==
    LET D == decode_single(mem, sr) IN ReaderCall("decode_single", <<>>, D.sr, D.dr)

call_write_uint ==
    \E v \in UintValues : WriterCall("write_uint", v, write_uint(WEnv(mem, wr), v))

call_write_u8 ==
    \E v \in U8Values : WriterCall("write_u8", v, mp_write_u8(WEnv(mem, wr), v))

call_write_i8 ==
    \E v \in I8Values : WriterCall("write_i8", v, mp_write_i8(WEnv(mem, wr), v))

call_write_u16 ==
    \E v \in U16Values : WriterCall("write_u16", v, mp_write_u16(WEnv(mem, wr), v))

call_write_i16 ==
    \E v \in I16Values : WriterCall("write_i16", v, mp_write_i16(WEnv(mem, wr), v))

call_write_u32 ==
    \E v \in U32Values : WriterCall("write_u32", v, mp_write_u32(WEnv(mem, wr), v))

call_write_i32 ==
    \E v \in I32Values : WriterCall("write_i32", v, mp_write_i32(WEnv(mem, wr), v))

call_write_u64 ==
    \E v \in U64Values : WriterCall("write_u64", v, mp_write_u64(WEnv(mem, wr), v))

call_write_i64 ==
    \E v \in I64Values : WriterCall("write_i64", v, mp_write_i64(WEnv(mem, wr), v))

call_write_fixint ==
    \E v \in FixintValues : WriterCall("write_fixint", v, write_fixint(WEnv(mem, wr), v))

call_start_array ==
    \E n \in ArrayCounts : WriterCall("start_array", n, start_array(WEnv(mem, wr), n))

CodecNext ==
    \/ mp_initialize_streams
    \/ mp_decode_single
    \/ call_write_uint
    \/ call_write_u8
    \/ call_write_i8
    \/ call_write_u16
    \/ call_write_i16
    \/ call_write_u32
    \/ call_write_i32
    \/ call_write_u64
    \/ call_write_i64
    \/ call_write_fixint
    \/ call_start_array

Spec == CodecInit /\ [][CodecNext]_vars

---------------------------------------------------------------------------
(* The codec: composite headers, extensions, byte strings, typed reads *)

\* the tags peek_marker's switch lists with a return of the byte itself
PeekedTags ==
    {PosFixInt, FixMap, FixArray, FixStr, Nil, False, True, Bin8, Bin16, Bin32,
     Ext8, Ext16, Ext32, Float32, Float64, Uint8, Uint16, Uint32, Uint64,
     Int8, Int16, Int32, Int64, FixExt1, FixExt2, FixExt4, FixExt8, FixExt16,
     Str8, Str16, Str32, Array16, Array32, Map16, Map32, NegFixInt}

\* faulty variant: the byte is taken with read_u8, which consumes it
peek_marker_Consuming(m, s) ==
    LET r == read_pod(m, s, 1, FALSE)
    IN [sr |-> r.sr, val |-> IF r.val[1] \in PeekedTags THEN r.val[1] ELSE Unused]

\* MessagePack::peek_marker
peek_marker(m, s) ==
    LET r == read_pod(m, s, 1, TRUE)
    IN [sr |-> r.sr, val |-> IF r.val[1] \in PeekedTags THEN r.val[1] ELSE Unused]

\* write_fix_ext1 / 2 / 4 / 8 / 16( byte_array ): n is the data width
FixExtMarker(n) ==
    CASE n = 1 -> FixExt1 [] n = 2 -> FixExt2 [] n = 4 -> FixExt4
      [] n = 8 -> FixExt8 [] n = 16 -> FixExt16

\* faulty variant: the block is written last byte first
write_fix_ext_Reversed(E, n, byte_array) ==
    write_raw_value(E, DataPtr(Ptr(Reverse(byte_array.bytes))), U64(<<n + 1>>), FixExtMarker(n))

write_fix_ext(E, n, byte_array) ==
    write_raw_value(E, DataPtr(byte_array), U64(<<n + 1>>), FixExtMarker(n))

\* write_true / write_false / write_boolean
write_true(E) == write_raw_value(E, DataVal(Zeros(8)), U64(<<1>>), True)
write_false(E) == write_raw_value(E, DataVal(Zeros(8)), U64(<<1>>), False)

\* faulty variant: the two markers exchanged
write_boolean_Inverted(E, value) == IF value THEN write_false(E) ELSE write_true(E)

write_boolean(E, value) == IF value THEN write_true(E) ELSE write_false(E)

write_cstr(E, string, length) == write_raw_value(E, DataPtr(string), length, Str8)

write_bytes(E, bytes, count) == write_raw_value(E, DataPtr(bytes), count, Bin8)

\* pair counts of start_map
MapCounts ==
    {U64(<<0>>), U64(<<3>>), U64(<<15>>), U64(<<16>>), U64(<<255, 255>>),
     U64(<<1, 0, 0>>), U64(<<1, 2, 3, 4>>)}

\* (1 + n)-byte blocks [type, data...] handed to write_fix_extN
ExtBlocks(n) == {Ptr([i \in 1..(n + 1) |-> 9 + i]), Ptr([i \in 1..(n + 1) |-> 256 - i])}

\* byte strings handed to write_bytes and write_cstr, and their lengths
ByteStrings == {Ptr([i \in 1..MemSize |-> 64 + i])}
ByteCounts ==
    {U64(<<0>>), U64(<<3>>), U64(<<255>>), U64(<<1, 0>>), U64(<<255, 255>>),
     U64(<<1, 0, 0>>), U64(<<1, 0, 0, 0, 3>>)}

call_start_map ==
    \E n \in MapCounts : WriterCall("start_map", n, start_map(WEnv(mem, wr), n))

CallWriteFixExt(n) ==
    \E b \in ExtBlocks(n) :
        WriterCall("write_fix_ext", [n |-> n, block |-> b.bytes],
                   write_fix_ext(WEnv(mem, wr), n, b))

call_write_fix_ext1 == CallWriteFixExt(1)
call_write_fix_ext2 == CallWriteFixExt(2)
call_write_fix_ext4 == CallWriteFixExt(4)
call_write_fix_ext8 == CallWriteFixExt(8)
call_write_fix_ext16 == CallWriteFixExt(16)

call_write_bytes ==
    \E b \in ByteStrings, c \in ByteCounts :
        WriterCall("write_bytes", [count |-> c, src |-> b], write_bytes(WEnv(mem, wr), b, c))

call_write_cstr ==
    \E b \in ByteStrings, c \in ByteCounts :
        WriterCall("write_cstr", [count |-> c, src |-> b], write_cstr(WEnv(mem, wr), b, c))

mp_peek_marker ==
    LET r == peek_marker(mem, sr) IN ReaderCall("peek_marker", <<>>, r.sr, r.val)

call_read_u8 ==
    LET r == mp_read_u8(mem, sr) IN ReaderCall("mp_read_u8", <<>>, r.sr, r.val)

call_read_u16 ==
    LET r == mp_read_u16(mem, sr) IN ReaderCall("mp_read_u16", <<>>, r.sr, r.val)

call_read_u32 ==
    LET r == mp_read_u32(mem, sr) IN ReaderCall("mp_read_u32", <<>>, r.sr, r.val)

call_read_u64 ==
    LET r == mp_read_u64(mem, sr) IN ReaderCall("mp_read_u64", <<>>, r.sr, r.val)

CompositeNext ==
    \/ mp_initialize_streams
    \/ mp_decode_single
    \/ mp_peek_marker
    \/ call_read_u8
    \/ call_read_u16
    \/ call_read_u32
    \/ call_read_u64
    \/ call_start_array
    \/ call_start_map
    \/ call_write_fix_ext1
    \/ call_write_fix_ext2
    \/ call_write_fix_ext4
    \/ call_write_fix_ext8
    \/ call_write_fix_ext16
    \/ call_write_bytes
    \/ call_write_cstr

SpecComposite == CodecInit /\ [][CompositeNext]_vars

---------------------------------------------------------------------------
(* The codec decoding a buffer whose contents the caller received *)

\* first bytes of the received buffers: the ends and an inner point of each
\* compact range, FixStr headers with and without room for their payload,
\* and every point tag C0..DF
LeadBytes ==
    {0, 1, 127, 128, 131, 143, 144, 147, 159, 160, 163, 178, 191, 224, 225, 255}
        \cup (192..223)

\* a received buffer: b as its first and as its last byte, and between them
\* the bytes 'A', 'B', 'C', ...
WireImage(b) ==
    [i \in 0..(MemSize - 1) |-> IF i = 0 \/ i = MemSize - 1 THEN b ELSE 64 + i]

\* the tags that are followed by a length field
LengthTags == {Bin8, Bin16, Bin32, Ext8, Ext16, Ext32, Str8, Str16, Str32}

\* a received buffer holding an empty binary, extension or string: the tag,
\* then a length field of zeros
EmptyImage(b) == [i \in 0..(MemSize - 1) |-> IF i = 0 THEN b ELSE 0]

\* positions the codec is attached at: the start, the last byte, the end
AttachPositions == {0, MemSize - 1, MemSize}

DecodeInit ==
    /\ mem \in {WireImage(b) : b \in LeadBytes} \cup {EmptyImage(b) : b \in LengthTags}
    /\ sr = NewStream
    /\ wr = NewStream
    /\ ret = NoCall
    /\ copied = {}
    /\ log = <<>>
    /\ nops = 0

mp_attach ==
    \E p \in AttachPositions :
        LET c == initialize_streams(p, MemSize, TRUE, TRUE, TRUE)
        IN /\ nops < MaxOps
           /\ sr' = c.sr
           /\ wr' = c.wr
           /\ ret' = Call("initialize_streams", p, <<>>)
           /\ copied' = {}
           /\ nops' = nops + 1
           /\ UNCHANGED <<mem, log>>

\* MessagePack::reset_cursors
mp_reset_cursors ==
    /\ nops < MaxOps
    /\ sr' = reset_cursor(sr)
    /\ wr' = reset_cursor(wr)
    /\ ret' = Call("reset_cursors", <<>>, <<>>)
    /\ copied' = {}
    /\ nops' = nops + 1
    /\ UNCHANGED <<mem, log>>

DecodeNext ==
    \/ mp_attach
    \/ mp_reset_cursors
    \/ mp_decode_single
    \/ mp_peek_marker

SpecDecode == DecodeInit /\ [][DecodeNext]_vars

---------------------------------------------------------------------------
(* The life cycle of the cursors: set, reset, clear, with reads and writes *)

\* StreamReader::reset / StreamWriter::reset
stream_reset(s) == NewStream

\* StreamReader::reset_temporal / StreamWriter::reset_temporal: the copy
\* function is kept
stream_reset_temporal(s) ==
    [s EXCEPT !.position = 0, !.stream_size = 0, !.buffer = FALSE]

\* faulty variant: set_temporal starts with reset( ), dropping the copy function
stream_set_temporal_FullReset(s, position, stream_size, buffer) ==
    [stream_reset(s) EXCEPT !.position = position,
                            !.stream_size = stream_size,
                            !.buffer = buffer]

\* StreamReader::set_temporal / StreamWriter::set_temporal
stream_set_temporal(s, position, stream_size, buffer) ==
    [stream_reset_temporal(s) EXCEPT !.position = position,
                                     !.stream_size = stream_size,
                                     !.buffer = buffer]

\* position and stream_size arguments handed to set and initialize_streams
SetPositions == {0, MemSize + 1}
SetSizes == {2, MemSize}

\* a call that rebinds or resets cursors: the state it ends in
LifecycleCallLog(op, arg, s, w, m, l) ==
    /\ nops < MaxOps
    /\ sr' = s
    /\ wr' = w
    /\ mem' = m
    /\ log' = l
    /\ ret' = Call(op, arg, <<>>)
    /\ copied' = {}
    /\ nops' = nops + 1

LifecycleCall(op, arg, s, w, m) == LifecycleCallLog(op, arg, s, w, m, log)

\* a call that starts with wr_.clear( )
ClearingCall(op, arg, s, w, m) == LifecycleCallLog(op, arg, s, w, m, <<>>)

\* memset( buffer_, 0, stream_size_ ) needs a buffer unless the size is 0
CanClear == wr.buffer \/ wr.stream_size = 0

lc_initialize_streams ==
    \E p \in SetPositions, n \in SetSizes :
        LET c == initialize_streams(p, n, TRUE, TRUE, TRUE)
        IN LifecycleCall("initialize_streams", <<p, n>>, c.sr, c.wr, mem)

lc_sr_set ==
    \E p \in SetPositions :
        LifecycleCall("sr_set", <<p, MemSize>>, stream_set(p, MemSize, TRUE, TRUE), wr, mem)

lc_wr_set ==
    \E p \in SetPositions :
        LifecycleCall("wr_set", <<p, MemSize>>, sr, stream_set(p, MemSize, TRUE, TRUE), mem)

lc_sr_set_temporal ==
    \E p \in SetPositions :
        LifecycleCall("sr_set_temporal", <<p, MemSize>>,
                      stream_set_temporal(sr, p, MemSize, TRUE), wr, mem)

lc_wr_set_temporal ==
    \E p \in SetPositions :
        LifecycleCall("wr_set_temporal", <<p, MemSize>>,
                      sr, stream_set_temporal(wr, p, MemSize, TRUE), mem)

lc_sr_reset == LifecycleCall("sr_reset", <<>>, stream_reset(sr), wr, mem)

lc_wr_reset == LifecycleCall("wr_reset", <<>>, sr, stream_reset(wr), mem)

lc_sr_reset_temporal ==
    LifecycleCall("sr_reset_temporal", <<>>, stream_reset_temporal(sr), wr, mem)

lc_wr_reset_temporal ==
    LifecycleCall("wr_reset_temporal", <<>>, sr, stream_reset_temporal(wr), mem)

\* MessagePack::reset_all: wr_.clear( ), sr_.reset( ), wr_.reset( )
mp_reset_all ==
    /\ CanClear
    /\ ClearingCall("reset_all", <<>>, stream_reset(sr),
                     stream_reset(stream_clear(WEnv(mem, wr)).wr),
                     stream_clear(WEnv(mem, wr)).mem)

\* MessagePack::reset_temporal: wr_.clear( ), then reset_temporal on both
mp_reset_temporal ==
    /\ CanClear
    /\ ClearingCall("reset_temporal", <<>>, stream_reset_temporal(sr),
                     stream_reset_temporal(stream_clear(WEnv(mem, wr)).wr),
                     stream_clear(WEnv(mem, wr)).mem)

\* MessagePack::reset_and_clear: wr_.clear( ), reset_cursors( )
mp_reset_and_clear ==
    /\ CanClear
    /\ ClearingCall("reset_and_clear", <<>>, reset_cursor(sr),
                     reset_cursor(stream_clear(WEnv(mem, wr)).wr),
                     stream_clear(WEnv(mem, wr)).mem)

\* the cursors as constructed: default, or bound by set as the fixtures do
LifecycleInit ==
    /\ mem = [i \in 0..(MemSize - 1) |-> 0]
    /\ \E bound \in BOOLEAN :
          /\ sr = (IF bound THEN stream_set(0, MemSize, TRUE, TRUE) ELSE NewStream)
          /\ wr = (IF bound THEN stream_set(0, MemSize, TRUE, TRUE) ELSE NewStream)
    /\ ret = NoCall
    /\ copied = {}
    /\ log = <<>>
    /\ nops = 0

LifecycleNext ==
    \/ lc_initialize_streams
    \/ lc_sr_set
    \/ lc_wr_set
    \/ lc_sr_set_temporal
    \/ lc_wr_set_temporal
    \/ lc_sr_reset
    \/ lc_wr_reset
    \/ lc_sr_reset_temporal
    \/ lc_wr_reset_temporal
    \/ mp_reset_all
    \/ mp_reset_temporal
    \/ mp_reset_and_clear
    \/ mp_reset_cursors
    \/ sr_reset_cursor
    \/ wr_reset_cursor
    \/ wr_clear
    \/ sr_read_u8
    \/ wr_write_u8

SpecLifecycle == LifecycleInit /\ [][LifecycleNext]_vars

---------------------------------------------------------------------------
(* A write cursor filled to the brim (tests.cpp, StreamFixture.WriteOverflow) *)

\* capacities that 1-, 4- and 8-byte writes fill in two steps
SaturationSizes == {2, 8, 16}

SaturationInit ==
    /\ mem = [i \in 0..(MemSize - 1) |-> 0]
    /\ \E size \in SaturationSizes :
          /\ wr = stream_set(0, size, TRUE, TRUE)
          /\ sr = stream_set(0, size, TRUE, TRUE)
    /\ ret = NoCall
    /\ copied = {}
    /\ log = <<>>
    /\ nops = 0

SaturationNext ==
    \/ wr_write_u8
    \/ wr_write_u16
    \/ wr_write_u32
    \/ wr_write_u64
    \/ wr_reset_cursor
    \/ wr_clear
    \/ sr_read_u8
    \/ sr_reset_cursor

SpecSaturation == SaturationInit /\ [][SaturationNext]_vars

---------------------------------------------------------------------------
(* The codec used as in the README: values written in a row, then decoded *)

\* calls per behaviour here: one more, for two writes followed by two decodes
SequenceOps == MaxOps + 1

\* the codec as the fixtures construct it: both cursors at 0 over a zeroed buffer
SequenceInit ==
    /\ mem = [i \in 0..(MemSize - 1) |-> 0]
    /\ sr = initialize_streams(0, MemSize, TRUE, TRUE, TRUE).sr
    /\ wr = initialize_streams(0, MemSize, TRUE, TRUE, TRUE).wr
    /\ ret = NoCall
    /\ copied = {}
    /\ log = <<>>
    /\ nops = 0

SeqWrite(op, arg, E) == WriterStep(SequenceOps, op, arg, E, LogAfter(op, arg, E))

seq_write_u8 == SeqWrite("write_u8", <<10>>, mp_write_u8(WEnv(mem, wr), <<10>>))

seq_write_i16 ==
    SeqWrite("write_i16", <<255, 254>>, mp_write_i16(WEnv(mem, wr), <<255, 254>>))

seq_write_u32 ==
    SeqWrite("write_u32", <<1, 2, 3, 4>>, mp_write_u32(WEnv(mem, wr), <<1, 2, 3, 4>>))

seq_write_i64 ==
    \E v \in {<<128, 0, 0, 0, 0, 0, 0, 1>>} :
        SeqWrite("write_i64", v, mp_write_i64(WEnv(mem, wr), v))

seq_write_uint ==
    \E v \in {U64(<<10>>), U64(<<1, 44>>)} :
        SeqWrite("write_uint", v, write_uint(WEnv(mem, wr), v))

seq_write_boolean ==
    \E b \in BOOLEAN : SeqWrite("write_boolean", b, write_boolean(WEnv(mem, wr), b))

SeqWriteFixExt(n) ==
    LET b == Ptr([i \in 1..(n + 1) |-> 9 + i])
    IN SeqWrite("write_fix_ext", [n |-> n, block |-> b.bytes],
                write_fix_ext(WEnv(mem, wr), n, b))

seq_write_fix_ext1 == SeqWriteFixExt(1)
seq_write_fix_ext8 == SeqWriteFixExt(8)

seq_decode_single ==
    LET D == decode_single(mem, sr)
    IN ReaderStep(SequenceOps, "decode_single", <<>>, D.sr, D.dr)

SequenceNext ==
    \/ seq_write_u8
    \/ seq_write_i16
    \/ seq_write_u32
    \/ seq_write_i64
    \/ seq_write_uint
    \/ seq_write_boolean
    \/ seq_write_fix_ext1
    \/ seq_write_fix_ext8
    \/ seq_decode_single

SpecSequence == SequenceInit /\ [][SequenceNext]_vars

---------------------------------------------------------------------------
(* A received buffer decoded, rewound and decoded again *)

\* calls per behaviour here: two decodes, the rewind, and the two decodes again
ReplayOps == MaxOps + 2

\* positions the codec is attached at
ReplayPositions == {0, 1}

\* the codec attached to a received buffer
ReplayInit ==
    /\ mem \in {WireImage(b) : b \in LeadBytes} \cup {EmptyImage(b) : b \in LengthTags}
    /\ \E p \in ReplayPositions :
          /\ sr = initialize_streams(p, MemSize, TRUE, TRUE, TRUE).sr
          /\ wr = initialize_streams(p, MemSize, TRUE, TRUE, TRUE).wr
    /\ ret = NoCall
    /\ copied = {}
    /\ log = <<>>
    /\ nops = 0

\* a call that leaves the buffer alone, entered in the log with what it returned
ReplayStep(op, s, w, out) ==
    /\ nops < ReplayOps
    /\ sr' = s
    /\ wr' = w
    /\ ret' = Call(op, <<>>, out)
    /\ log' = Append(log, [op |-> op, arg |-> out, at |-> sr.position,
                           len |-> s.position - sr.position])
    /\ copied' = {}
    /\ nops' = nops + 1
    /\ UNCHANGED mem

replay_decode_single ==
    LET D == decode_single(mem, sr) IN ReplayStep("decode_single", D.sr, wr, D.dr)

replay_reset_cursors ==
    ReplayStep("reset_cursors", reset_cursor(sr), reset_cursor(wr), <<>>)

ReplayNext ==
    \/ replay_decode_single
    \/ replay_reset_cursors

SpecReplay == ReplayInit /\ [][ReplayNext]_vars

---------------------------------------------------------------------------
(* Claims about the cursors *)

StreamWriteOps == {"write", "write_u8", "write_u16", "write_u32", "write_u64"}
StreamReadPodOps == {"read_u8", "read_u16", "read_u32", "read_u64"}
StreamReadOps == StreamReadPodOps \cup {"read", "peek_u8"}

\* the guard as section 4.1 states it: the call is accepted exactly when
\* count > 0, the pointer is non-null, count < capacity, position + count <=
\* capacity, and a buffer and a copy function are bound
SpecAccepts(s, count, ptr) ==
    /\ count > 0
    /\ ~ptr.null
    /\ count < s.stream_size
    /\ s.position + count <= s.stream_size
    /\ s.buffer
    /\ s.copy_fn

\* C1: bounds safety of the write cursor.  After any write / write_u8 /
\* write_u16 / write_u32 / write_u64 issued on a cursor whose position is
\* within its capacity C, the position is still <= C and no offset >= C was
\* handed to the copy function.
C1_WriteBounds ==
    (ret.op \in StreamWriteOps /\ ret.wr0.position <= ret.wr0.stream_size)
        => /\ wr.position <= wr.stream_size
           /\ \A o \in copied : o >= 0 /\ o < wr.stream_size

\* a write of 2 bytes issued at position C - 1 on a usable cursor was dropped
C1_Witness ==
    /\ ret.op = "write_u16"
    /\ StreamValid(ret.wr0)
    /\ ret.wr0.stream_size = MemSize
    /\ ret.wr0.position = MemSize - 1
    /\ wr.position = MemSize - 1
    /\ copied = {}

\* C2: guard characterisation.  write( count, src ) copies exactly count bytes
\* at the current position and advances by count iff the guard accepts, and
\* otherwise leaves the buffer and the position unchanged; read( count, dst )
\* symmetrically copies count bytes out and advances iff the guard accepts,
\* and otherwise changes nothing.
C2_GuardCharacterisation ==
    /\ ret.op = "write" =>
          LET c == ret.arg.count
              p == ret.wr0.position
          IN IF SpecAccepts(ret.wr0, c, ret.arg.src)
             THEN /\ wr = [ret.wr0 EXCEPT !.position = p + c]
                  /\ copied = p .. (p + c - 1)
                  /\ \A i \in DOMAIN mem :
                        mem[i] = IF i \in copied THEN ret.arg.src.bytes[i - p + 1]
                                 ELSE ret.mem0[i]
             ELSE wr = ret.wr0 /\ mem = ret.mem0 /\ copied = {}
    /\ ret.op = "read" =>
          LET c == ret.arg.count
              p == ret.sr0.position
          IN /\ mem = ret.mem0
             /\ IF SpecAccepts(ret.sr0, c, ret.arg.dst)
                THEN /\ sr = [ret.sr0 EXCEPT !.position = p + c]
                     /\ \A i \in 1..Len(ret.out.bytes) :
                           ret.out.bytes[i] = IF i <= c THEN ret.mem0[p + i - 1]
                                              ELSE ret.arg.dst.bytes[i]
                ELSE sr = ret.sr0 /\ ret.out = ret.arg.dst

\* a request with count = capacity issued at position 0 on a usable cursor was rejected
C2_Witness ==
    /\ ret.op = "write"
    /\ StreamValid(ret.wr0)
    /\ ~ret.arg.src.null
    /\ ret.wr0.position = 0
    /\ ret.arg.count = ret.wr0.stream_size
    /\ ret.arg.count > 0
    /\ wr.position = 0
    /\ mem = ret.mem0

\* C3: overflow read degrades to zero.  A read_u8/u16/u32/u64 issued when the
\* read position has reached stream_size returns 0 and leaves the position
\* unchanged (so every later read does the same), and a read issued with
\* position <= stream_size leaves position <= stream_size.
C3_ExhaustedReadIsZero ==
    /\ (ret.op \in StreamReadPodOps /\ ret.sr0.position = ret.sr0.stream_size)
          => ret.out = Zeros(ret.arg) /\ sr = ret.sr0
    /\ (ret.op \in StreamReadOps /\ ret.sr0.position <= ret.sr0.stream_size)
          => sr.position <= sr.stream_size

\* a usable reader read its last byte (written before, non-zero), and the read
\* after that, issued at position = stream_size, returned 0
C3_Witness ==
    /\ ret.op = "read_u8"
    /\ StreamValid(ret.sr0)
    /\ ret.sr0.stream_size > 0
    /\ ret.sr0.position = ret.sr0.stream_size
    /\ ret.mem0[ret.sr0.stream_size - 1] # 0
    /\ ret.out = <<0>>

---------------------------------------------------------------------------
(* Claims about the codec: a value written, then decoded *)

LastWrite == log[Len(log)]

\* decode_single ran on a usable read cursor placed where the last write
\* began, and the n bytes of that write's encoding lie inside the buffer
DecodedLast(op, n) ==
    /\ ret.op = "decode_single"
    /\ Len(log) > 0
    /\ LastWrite.op = op
    /\ LastWrite.at = ret.sr0.position
    /\ StreamValid(ret.sr0)
    /\ LastWrite.at + n <= ret.sr0.stream_size

\* the smallest form that holds v, as section 4.2 lists it, and its encoded length
SmallestMarker(v) ==
    IF LeqU(v, U64(<<127>>)) THEN PosFixInt
    ELSE IF LeqU(v, U64(<<255>>)) THEN Uint8
    ELSE IF LeqU(v, U64(<<255, 255>>)) THEN Uint16
    ELSE IF LeqU(v, U64(<<255, 255, 255, 255>>)) THEN Uint32
    ELSE Uint64

EncodedLength(mk) ==
    CASE mk = PosFixInt -> 1
      [] mk \in {Uint8, Int8} -> 2
      [] mk \in {Uint16, Int16} -> 3
      [] mk \in {Uint32, Int32} -> 5
      [] mk \in {Uint64, Int64} -> 9

\* the integer a result holds, by its marker, as 8 bytes
DecodedUnsigned(dr) ==
    CASE dr.marker \in {PosFixInt, Uint8, Int8} -> ZeroExtend(as_u8(dr), 8)
      [] dr.marker \in {Uint16, Int16} -> ZeroExtend(as_u16(dr), 8)
      [] dr.marker \in {Uint32, Int32} -> ZeroExtend(as_u32(dr), 8)
      [] OTHER -> as_u64(dr)

\* C4: opportunistic marker selection.  write_uint( v ) followed by
\* decode_single( ) yields PosFixInt for v <= 127, Uint8 for v <= 255, Uint16
\* for v <= 65535, Uint32 for v <= 2^32 - 1 and Uint64 otherwise.
C4_UintMarker ==
    \A mk \in {PosFixInt, Uint8, Uint16, Uint32, Uint64} :
        (DecodedLast("write_uint", EncodedLength(mk)) /\ SmallestMarker(LastWrite.arg) = mk)
            => ret.out.marker = mk

\* write_uint( 2^32 ) was decoded as Uint64
C4_Witness ==
    /\ DecodedLast("write_uint", 9)
    /\ LastWrite.arg = U64(<<1, 0, 0, 0, 0>>)
    /\ ret.out.marker = Uint64
    /\ sr.position = ret.sr0.position + 9

\* C5: opportunistic value round-trip.  The value decode_single( ) returns
\* after write_uint( v ) equals v, in each of the five size ranges.
C5_UintValueRoundTrip ==
    \A mk \in {PosFixInt, Uint8, Uint16, Uint32, Uint64} :
        (DecodedLast("write_uint", EncodedLength(mk)) /\ SmallestMarker(LastWrite.arg) = mk)
            => DecodedUnsigned(ret.out) = LastWrite.arg

\* the marker each typed write names
TypedMarker(op) ==
    CASE op = "write_u8" -> Uint8   [] op = "write_i8" -> Int8
      [] op = "write_u16" -> Uint16 [] op = "write_i16" -> Int16
      [] op = "write_u32" -> Uint32 [] op = "write_i32" -> Int32
      [] op = "write_u64" -> Uint64 [] op = "write_i64" -> Int64

TypedWrites ==
    {"write_u8", "write_i8", "write_u16", "write_i16",
     "write_u32", "write_i32", "write_u64", "write_i64"}

\* C6: fixed-width integer round-trip.  write_u8 .. write_i64( x ) followed by
\* decode_single( ) returns the matching marker and a result field whose bit
\* pattern equals x.
C6_FixedWidthRoundTrip ==
    \A op \in TypedWrites :
        DecodedLast(op, EncodedLength(TypedMarker(op)))
            => /\ ret.out.marker = TypedMarker(op)
               /\ DecodedUnsigned(ret.out) = ZeroExtend(LastWrite.arg, 8)

\* C7: big-endian wire layout.  write_u16/u32/u64 and write_i16/i32/i64 of x
\* place the marker byte and then the bytes of x most significant first, and
\* the write cursor advances by 1 + width (the encoding fitting the buffer).
C7_BigEndianWire ==
    \A op \in TypedWrites \ {"write_u8", "write_i8"} :
        LET p == ret.wr0.position
            w == Len(ret.arg)
        IN (ret.op = op /\ StreamValid(ret.wr0) /\ p + 1 + w <= ret.wr0.stream_size)
              => /\ mem[p] = TypedMarker(op)
                 /\ \A i \in 1..w : mem[p + i] = ret.arg[i]
                 /\ wr.position = p + 1 + w

\* write_u16( 0x0102 ) at offset 0 emitted CD 01 02
C7_Witness ==
    /\ ret.op = "write_u16"
    /\ ret.arg = <<1, 2>>
    /\ ret.wr0.position = 0
    /\ mem[0] = 205 /\ mem[1] = 1 /\ mem[2] = 2
    /\ wr.position = 3

\* C8: fixint round-trip inside the representable range.  For -32 <= v <= 127
\* write_fixint( v ) followed by decode_single( ) yields v, as PosFixInt when
\* v >= 0 and as NegFixInt when v < 0.
C8_FixintRoundTrip ==
    LET v == AsI8(LastWrite.arg[1])
    IN (DecodedLast("write_fixint", 1) /\ v >= -32 /\ v <= 127)
          => /\ as_i8(ret.out) = v
             /\ ret.out.marker = IF v >= 0 THEN PosFixInt ELSE NegFixInt

\* C9: NegFixInt 5-bit wrap.  For v < -32 write_fixint( v ) writes the single
\* byte 0xE0 | ( v & 0x1F ) and decode_single( ) returns NegFixInt with value
\* ( v & 0x1F ) - 32.
C9_NegFixIntWrap ==
    LET v == AsI8(LastWrite.arg[1])
    IN (DecodedLast("write_fixint", 1) /\ v < -32)
          => /\ LastWrite.len = 1
             /\ mem[LastWrite.at] = 224 + (v % 32)
             /\ ret.out.marker = NegFixInt
             /\ as_i8(ret.out) = (v % 32) - 32

\* write_fixint( -33 ) was decoded as -1
C9_Witness ==
    /\ DecodedLast("write_fixint", 1)
    /\ AsI8(LastWrite.arg[1]) = -33
    /\ ret.out.marker = NegFixInt
    /\ as_i8(ret.out) = -1

\* C10: array header-only decode.  For 0 <= n <= 15, start_array( n ) followed
\* by decode_single( ) yields marker FixArray and size n, and the read cursor
\* advances by exactly 1.
C10_FixArrayHeader ==
    (DecodedLast("start_array", 1) /\ LeqU(LastWrite.arg, U64(<<15>>)))
        => /\ ret.out.marker = FixArray
           /\ ret.out.size = Truncate(LastWrite.arg, 4)
           /\ sr.position = ret.sr0.position + 1

---------------------------------------------------------------------------
(* Claims about composite headers, extensions and the frame of each call *)

\* the header section 4.2 prescribes for a count n: the bytes of the Fix form,
\* the 16-bit form or the 32-bit form, given the three markers
HeaderBytes(n, fix, m16, m32) ==
    IF LeqU(n, U64(<<15>>)) THEN <<fix + n[8]>>
    ELSE IF LeqU(n, U64(<<255, 255>>)) THEN <<m16>> \o Truncate(n, 2)
    ELSE <<m32>> \o Truncate(n, 4)

\* the call op was issued on a usable write cursor with room for bytes, and
\* left exactly bytes at the position it started from
WroteExactly(op, bytes) ==
    LET p == ret.wr0.position
    IN (ret.op = op /\ StreamValid(ret.wr0) /\ p + Len(bytes) <= ret.wr0.stream_size)
          => /\ wr.position = p + Len(bytes)
             /\ \A i \in 1..Len(bytes) : mem[p + i - 1] = bytes[i]

\* C11: composite header width selection.  start_array( n ) and start_map( n )
\* write the one-byte Fix form (0x90 | n, 0x80 | n) for n <= 15, the 16-bit
\* form (DC, DE and the 2-byte big-endian count) for 16 <= n <= 65535, and the
\* 32-bit form (DD, DF and the 4-byte big-endian count) for larger n.
C11_HeaderWidth ==
    /\ WroteExactly("start_array", HeaderBytes(ret.arg, FixArray, Array16, Array32))
    /\ WroteExactly("start_map", HeaderBytes(ret.arg, FixMap, Map16, Map32))

---------------------------------------------------------------------------
(* Claims about decoding a received buffer *)

\* the last call was op, issued on a usable read cursor with a byte left to
\* read; NextByte is that byte
ReadingAt(op) ==
    /\ ret.op = op
    /\ StreamValid(ret.sr0)
    /\ ret.sr0.position < ret.sr0.stream_size

NextByte == ret.mem0[ret.sr0.position]

\* C12: failure sentinel.  decode_single( ) on a stream whose next byte is the
\* reserved code point 0xC1, or the unsupported Float32 / Float64 markers
\* 0xCA / 0xCB, returns marker Unused with size 0, so the result converts to
\* false.
C12_FailureSentinel ==
    (ReadingAt("decode_single") /\ NextByte \in {193, 202, 203})
        => /\ ret.out.marker = Unused
           /\ ret.out.size = Zeros(4)
           /\ ~ResultOk(ret.out)

\* the result of decoding a buffer that starts with an encoded 0
DecodedZero ==
    decode_single([i \in 0..(MemSize - 1) |-> 0], stream_set(0, MemSize, TRUE, TRUE)).dr

C14_FixExtRoundTrip ==
    \A n \in {1, 2, 4, 8, 16} :
        /\ (ret.op = "write_fix_ext" /\ ret.arg.n = n /\ StreamValid(ret.wr0)
               /\ ret.wr0.position + 2 + n <= ret.wr0.stream_size)
              => wr.position = ret.wr0.position + 2 + n /\ sr = ret.sr0
        /\ (DecodedLast("write_fix_ext", 2 + n) /\ LastWrite.arg.n = n)
              => /\ ret.out.marker = FixExtMarker(n)
                 /\ ret.out.size = <<0, 0, 0, 1 + n>>
                 /\ ext_type(ret.out) = LastWrite.arg.block[1]
                 /\ ext_data(ret.out, n) = Tail(LastWrite.arg.block)
                 /\ sr.position = ret.sr0.position + 2 + n

\* a 17-byte block written with write_fix_ext16 at offset 0 was decoded with
\* its 16 data bytes in order
C14_Witness ==
    /\ DecodedLast("write_fix_ext", 18)
    /\ LastWrite.arg.n = 16
    /\ ret.out.marker = FixExt16
    /\ ext_data(ret.out, 16) = [i \in 1..16 |-> 10 + i]
    /\ sr.position = 18

\* C15: FixStr decode.  For a stream whose next byte b lies in 0xA0..0xBF and
\* is followed by b & 0x1F payload bytes, decode_single( ) returns marker
\* FixStr and size b & 0x1F, copies the payload bytes into result.as_fixstr,
\* and advances the read cursor by 1 + ( b & 0x1F ).
C15_FixStrDecode ==
    LET p == ret.sr0.position
        n == BitAnd(NextByte, 31)
    IN (ReadingAt("decode_single") /\ NextByte \in 160..191
            /\ p + 1 + n <= ret.sr0.stream_size)
          => /\ ret.out.marker = FixStr
             /\ ret.out.size = <<0, 0, 0, n>>
             /\ as_fixstr(ret.out, n) = [i \in 1..n |-> ret.mem0[p + i]]
             /\ sr.position = p + 1 + n

---------------------------------------------------------------------------
(* Claims about the frame and the atomicity of the codec's calls *)

\* the write calls of the codec that Spec issues, and the length of the
\* complete encoding of each
IntegerWriteOps == TypedWrites \cup {"write_uint", "start_array"}

FullLength(op, arg) ==
    IF op = "write_uint" THEN EncodedLength(SmallestMarker(arg))
    ELSE IF op = "start_array" THEN Len(HeaderBytes(arg, FixArray, Array16, Array32))
    ELSE EncodedLength(TypedMarker(op))

\* C16: all-or-nothing codec writes.  Every write call of the codec, at any
\* write-cursor position, either writes its complete encoding and advances
\* the write cursor by the full encoded length, or writes nothing and leaves
\* the buffer and the write cursor unchanged.
C16_AllOrNothing ==
    ret.op \in IntegerWriteOps
        => \/ wr.position = ret.wr0.position + FullLength(ret.op, ret.arg)
           \/ wr = ret.wr0 /\ mem = ret.mem0 /\ copied = {}

\* the write calls and the read calls of the codec that SpecComposite issues
CompositeWriteOps == {"start_array", "start_map", "write_fix_ext", "write_bytes", "write_cstr"}

CodecReadOps ==
    {"decode_single", "mp_read_u8", "mp_read_u16", "mp_read_u32", "mp_read_u64", "peek_marker"}

\* C17: cursor independence.  No write operation of the codec changes the
\* read cursor; no decode_single( ), read_uN( ) or peek_marker( ) call changes
\* the write cursor or a byte of the buffer; peek_marker( ) also leaves the
\* read cursor unchanged.
C17_CursorIndependence ==
    /\ ret.op \in CompositeWriteOps => sr = ret.sr0
    /\ ret.op \in CodecReadOps => wr = ret.wr0 /\ mem = ret.mem0
    /\ ret.op = "peek_marker" => sr = ret.sr0

\* peek_marker( ) on a usable cursor standing on a written FixExt1 marker
\* returned the marker and moved nothing
C17_Witness ==
    /\ ret.op = "peek_marker"
    /\ StreamValid(ret.sr0)
    /\ Len(log) > 0
    /\ LastWrite.at = ret.sr0.position
    /\ ret.out = FixExt1
    /\ sr = ret.sr0
    /\ wr.position = ret.sr0.position + 3

\* C18: position invariant.  In every reachable state, for both cursors,
\* 0 <= position <= capacity, after any sequence of initialize_streams / set /
\* set_temporal (with arbitrary position and stream_size arguments), reset,
\* reset_temporal, reset_cursor, clear, read and write operations.
C18_PositionInvariant ==
    /\ 0 <= sr.position /\ sr.position <= sr.stream_size
    /\ 0 <= wr.position /\ wr.position <= wr.stream_size

\* C19: rejected reads zero the destination.  Whenever the guard rejects a
\* read, the destination holds zeros afterwards: the typed read_uN / peek_uN
\* calls return 0, and after the raw read( count, dst ) every one of the count
\* bytes of dst is 0, whatever dst held before.
C19_RejectedReadZeroes ==
    /\ (ret.op \in StreamReadPodOps \cup {"peek_u8"}
            /\ GuardRejects(ret.sr0, ret.arg, Ptr(Zeros(ret.arg))))
          => ret.out = Zeros(ret.arg)
    /\ (ret.op = "read" /\ ~ret.arg.dst.null
            /\ GuardRejects(ret.sr0, ret.arg.count, ret.arg.dst))
          => \A i \in 1..ret.arg.count : ret.out.bytes[i] = 0

\* C20: peek_marker recognises every valid tag.  For every next byte b that
\* is a MessagePack tag, a point marker or any byte of a compact range
\* (00-7F, 80-8F, 90-9F, A0-BF, E0-FF), peek_marker( ) returns a marker
\* different from Unused; it returns Unused only for 0xC1.
C20_PeekRecognisesTags ==
    ReadingAt("peek_marker") => (ret.out = Unused <=> NextByte = 193)

---------------------------------------------------------------------------
(* Claims about wide headers, recycling, saturation and replay *)

\* C21: wide composite count round-trip.  For 16 <= n <= 65535,
\* start_array( n ) followed by decode_single( ) yields marker Array16 with
\* size n, and for 65536 <= n <= 2^32 - 1 it yields Array32 with size n: the
\* big-endian count written by the encoder is the count the decoder reports.
C21_WideCountRoundTrip ==
    /\ (DecodedLast("start_array", 3) /\ ~LeqU(LastWrite.arg, U64(<<15>>))
            /\ LeqU(LastWrite.arg, U64(<<255, 255>>)))
          => /\ ret.out.marker = Array16
             /\ ret.out.size = Truncate(LastWrite.arg, 4)
    /\ (DecodedLast("start_array", 5) /\ ~LeqU(LastWrite.arg, U64(<<255, 255>>)))
          => /\ ret.out.marker = Array32
             /\ ret.out.size = Truncate(LastWrite.arg, 4)

\* a cursor keeps its size, its buffer and its copy function and stands at 0
Rewound(s, s0) == s = [s0 EXCEPT !.position = 0]

\* C22: clear recycles the buffer.  After StreamWriter::clear( ), and after
\* MessagePack::reset_and_clear( ), every byte of the buffer in
\* [0, stream_size) is 0 and the write position is 0 (for reset_and_clear both
\* cursors are at 0), while stream_size, the buffer binding and the copy
\* functions are unchanged.
C22_ClearRecycles ==
    /\ ret.op \in {"clear", "reset_and_clear"}
          => /\ \A i \in DOMAIN mem : i < wr.stream_size => mem[i] = 0
             /\ Rewound(wr, ret.wr0)
    /\ ret.op = "clear" => sr = ret.sr0
    /\ ret.op = "reset_and_clear" => Rewound(sr, ret.sr0)

\* clear( ) on a usable cursor that had written a byte and advanced: the byte
\* is gone and the cursor is back at 0
C22_Witness ==
    /\ ret.op = "clear"
    /\ StreamValid(ret.wr0)
    /\ ret.wr0.position = 1
    /\ ret.mem0[0] # 0
    /\ mem[0] = 0
    /\ wr.position = 0
    /\ wr.stream_size = MemSize

\* the width of each typed cursor write
PodWidth(op) ==
    CASE op = "write_u8" -> 1 [] op = "write_u16" -> 2
      [] op = "write_u32" -> 4 [] op = "write_u64" -> 8

\* C23: write saturation.  On a cursor of capacity C filled from position 0
\* with w-byte writes (w in {1, 4, 8}, w divides C, w < C), each write taken
\* at a position below C succeeds, the last one ending exactly at offset C,
\* and every write taken at position C is dropped without changing the
\* position: the position ends exactly equal to C.
C23_WriteSaturation ==
    \A op \in {"write_u8", "write_u32", "write_u64"} :
        LET w == PodWidth(op)
            C == ret.wr0.stream_size
            p == ret.wr0.position
        IN (ret.op = op /\ StreamValid(ret.wr0) /\ w < C /\ C % w = 0
                /\ p % w = 0 /\ p <= C)
              => /\ wr.position = (IF p < C THEN p + w ELSE C)
                 /\ p = C => mem = ret.mem0 /\ copied = {}

\* two 4-byte writes filled a cursor of capacity 8 from position 0, and the
\* third was dropped with the position at 8
C23_Witness ==
    /\ ret.op = "write_u32"
    /\ StreamValid(ret.wr0)
    /\ ret.wr0.stream_size = 8
    /\ ret.wr0.position = 8
    /\ Len(log) = 2
    /\ log[1].op = "write_u32" /\ log[1].at = 0
    /\ log[2].op = "write_u32" /\ log[2].at = 4
    /\ copied = {}
    /\ wr.position = 8

\* the bytes a logged cursor write put into the buffer
WrittenBytes(e) == IF e.op = "write" THEN SubSeq(e.arg.src.bytes, 1, e.len) ELSE ToMem(e.arg)

\* C24: raw cursor round-trip over the shared buffer.  Bytes written by the
\* StreamWriter are read back by the StreamReader bound to the same buffer in
\* the same order and at the same offsets: read_u8( ) taken at an offset q
\* inside the latest write b1..bk, begun at offset p, returns b(q - p + 1) and
\* advances by 1, for every offset up to and including the last byte C - 1.
C24_RawRoundTrip ==
    LET q == ret.sr0.position
    IN (ret.op = "read_u8" /\ StreamValid(ret.sr0) /\ Len(log) > 0
            /\ q >= LastWrite.at /\ q < LastWrite.at + LastWrite.len)
          => /\ ret.out = <<WrittenBytes(LastWrite)[q - LastWrite.at + 1]>>
             /\ sr.position = q + 1

\* the byte written at the last offset of the buffer was read back from there
C24_Witness ==
    /\ ret.op = "read_u8"
    /\ StreamValid(ret.sr0)
    /\ ret.sr0.stream_size = MemSize
    /\ ret.sr0.position = MemSize - 1
    /\ Len(log) > 0
    /\ LastWrite.at = MemSize - 1
    /\ ret.out = <<97>>
    /\ sr.position = MemSize

\* C25: reset life cycle.  After reset( ) a cursor has no buffer and no copy
\* function and its validity check is false; on a cursor whose validity check
\* is false every read and write is a no-op (reads return 0); set_temporal
\* binds position, size and buffer and keeps the copy function as it was, so
\* after reset( ) it leaves the cursor unusable and after reset_temporal( ),
\* which keeps the copy function, it makes reads and writes succeed again;
\* reset_cursor( ) changes only the position, to 0.
C25_ResetLifecycle ==
    /\ ret.op = "sr_reset" => sr = NewStream /\ ~StreamValid(sr)
    /\ ret.op = "wr_reset" => wr = NewStream /\ ~StreamValid(wr)
    /\ ret.op = "sr_reset_temporal"
          => sr = [NewStream EXCEPT !.copy_fn = ret.sr0.copy_fn]
    /\ ret.op = "wr_reset_temporal"
          => wr = [NewStream EXCEPT !.copy_fn = ret.wr0.copy_fn]
    /\ ret.op = "sr_set_temporal"
          => /\ sr = stream_set(ret.arg[1], ret.arg[2], TRUE, ret.sr0.copy_fn)
             /\ StreamValid(sr) <=> ret.sr0.copy_fn
    /\ ret.op = "wr_set_temporal"
          => /\ wr = stream_set(ret.arg[1], ret.arg[2], TRUE, ret.wr0.copy_fn)
             /\ StreamValid(wr) <=> ret.wr0.copy_fn
    /\ (ret.op = "read_u8" /\ ~StreamValid(ret.sr0)) => ret.out = <<0>> /\ sr = ret.sr0
    /\ (ret.op = "write_u8" /\ ~StreamValid(ret.wr0)) => wr = ret.wr0 /\ mem = ret.mem0
    /\ (ret.op = "read_u8" /\ StreamValid(ret.sr0)
            /\ ret.sr0.position < ret.sr0.stream_size)
          => sr.position = ret.sr0.position + 1
    /\ (ret.op = "write_u8" /\ StreamValid(ret.wr0)
            /\ ret.wr0.position < ret.wr0.stream_size)
          => wr.position = ret.wr0.position + 1 /\ mem[ret.wr0.position] = ret.arg[1]
    /\ ret.op = "sr_reset_cursor" => Rewound(sr, ret.sr0)
    /\ ret.op = "wr_reset_cursor" => Rewound(wr, ret.wr0)

\* set_temporal( ) bound a buffer to a cursor that reset_temporal( ) had left
\* with its copy function and no buffer: the cursor is usable again
C25_Witness ==
    /\ ret.op = "wr_set_temporal"
    /\ ret.wr0 = [NewStream EXCEPT !.copy_fn = TRUE]
    /\ ret.arg = <<0, MemSize>>
    /\ StreamValid(wr)
    /\ wr.stream_size = MemSize

---------------------------------------------------------------------------
(* Claims about sequences of values *)

\* the marker the spec gives a logged write, and its complete encoded length
WrittenMarker(e) ==
    IF e.op = "write_uint" THEN SmallestMarker(e.arg)
    ELSE IF e.op = "write_boolean" THEN (IF e.arg THEN True ELSE False)
    ELSE IF e.op = "write_fix_ext" THEN FixExtMarker(e.arg.n)
    ELSE TypedMarker(e.op)

WrittenLength(e) ==
    IF e.op = "write_boolean" THEN 1
    ELSE IF e.op = "write_fix_ext" THEN 2 + e.arg.n
    ELSE EncodedLength(WrittenMarker(e))

\* every write so far went into the buffer whole
AllWritesComplete == \A j \in 1..Len(log) : log[j].len = WrittenLength(log[j])

\* C26: write-then-decode ordering.  After values were written from an empty,
\* zeroed buffer by a mix of write_u8..write_i64, write_uint, write_boolean
\* and write_fix_extN (all within capacity), the decode_single( ) taken where
\* the j-th value begins returns the marker of the j-th value (typed writes
\* keep their marker, write_uint chooses the smallest) and advances the read
\* cursor by exactly the bytes that write advanced the write cursor, so that
\* k decodes return the k markers in write order and the decode of the last
\* value leaves read_cursor( ) = write_cursor( ).
C26_WriteThenDecodeOrder ==
    \A j \in 1..Len(log) :
        (ret.op = "decode_single" /\ AllWritesComplete /\ ret.sr0.position = log[j].at)
            => /\ ret.out.marker = WrittenMarker(log[j])
               /\ sr.position = log[j].at + log[j].len
               /\ j < Len(log) => sr.position = log[j + 1].at
               /\ j = Len(log) => sr.position = wr.position

\* write_u8( 0xA ), write_uint( 0xA ), and the second of two decodes: it
\* returned PosFixInt and left the read cursor on the write cursor, at 3
C26_Witness ==
    /\ ret.op = "decode_single"
    /\ Len(log) = 2
    /\ log[1].op = "write_u8" /\ log[1].at = 0 /\ log[1].len = 2
    /\ log[2].op = "write_uint" /\ log[2].arg = U64(<<10>>) /\ log[2].at = 2
    /\ ret.sr0.position = 2
    /\ ret.out.marker = PosFixInt
    /\ sr.position = 3
    /\ wr.position = 3
    /\ nops = 4

---------------------------------------------------------------------------
(* Claims about length headers and whole-value decoding *)

\* the width of the length field that follows a length tag
LengthWidth(b) ==
    IF b \in {Bin8, Ext8, Str8} THEN 1 ELSE IF b \in {Bin16, Ext16, Str16} THEN 2 ELSE 4

\* C27: length-header decode keeps the point marker.  For a stream whose next
\* byte is one of Bin8/16/32, Str8/16/32, Ext8/16/32 followed by a 1/2/4-byte
\* big-endian length L, decode_single( ) returns that same marker with
\* size = L for every L, L = 0 included, and advances the read cursor only
\* past the marker and the length field.
C27_LengthHeaderDecode ==
    LET p == ret.sr0.position
        w == LengthWidth(NextByte)
    IN (ReadingAt("decode_single") /\ NextByte \in LengthTags
            /\ p + 1 + w <= ret.sr0.stream_size)
          => /\ ret.out.marker = NextByte
             /\ ret.out.size = ZeroExtend([i \in 1..w |-> ret.mem0[p + i]], 4)
             /\ sr.position = p + 1 + w


\* the form the length n of a binary or string selects: the width of its
\* length field and the offset of its marker within its family
FormWidth(n) == IF LeqU(n, uint8_max) THEN 1 ELSE IF LeqU(n, uint16_max) THEN 2 ELSE 4
FormMarker(op, n) ==
    LET m8 == IF op = "write_bytes" THEN Bin8 ELSE Str8
    IN m8 + (IF FormWidth(n) = 1 THEN 0 ELSE IF FormWidth(n) = 2 THEN 1 ELSE 2)

\* the header of the form selected by n is in the buffer where the write began
FamilyHeaderAt(op, n, p) ==
    /\ mem[p] = FormMarker(op, n)
    /\ \A i \in 1..FormWidth(n) : mem[p + i] = Truncate(n, FormWidth(n))[i]

\* C28: binary/string family selection on the wire.  write_bytes(p, n) and
\* write_cstr(p, n) choose the form by n alone: marker Bin8/Str8 plus a 1-byte
\* length when n <= 255, Bin16/Str16 plus a 2-byte big-endian length when
\* 256 <= n <= 65535, Bin32/Str32 plus a 4-byte big-endian length otherwise,
\* followed by the n payload bytes unchanged and in order.  Stated for a
\* bound write cursor with room for what is written.
C28_FamilySelection ==
    LET n == ret.arg.count
        p == ret.wr0.position
        w == FormWidth(n)
        c == CountOf(Truncate(n, 4))
    IN (ret.op \in {"write_bytes", "write_cstr"} /\ StreamValid(ret.wr0))
          => /\ p + 1 + w <= ret.wr0.stream_size => FamilyHeaderAt(ret.op, n, p)
             /\ (LeqU(n, uint8_max) /\ p + 1 + w + c <= ret.wr0.stream_size)
                   => /\ FamilyHeaderAt(ret.op, n, p)
                      /\ \A i \in 1..c : mem[p + 1 + w + i - 1] = ret.arg.src.bytes[i]
                      /\ wr.position = p + 1 + w + c


\* the log is k - 1 decodes from the start of the buffer, then a rewind at k
DecodedThenRewound(k) ==
    /\ k > 1
    /\ k <= Len(log)
    /\ log[k].op = "reset_cursors"
    /\ \A j \in 1..(k - 1) : log[j].op = "decode_single"
    /\ log[1].at = 0

\* the i calls after the rewind at k are decodes
DecodedAgain(k, i) ==
    /\ k + i <= Len(log)
    /\ \A j \in 1..i : log[k + j].op = "decode_single"

PayloadWidth(b) ==
    IF b \in {Uint8, Int8} THEN 1
    ELSE IF b \in {Uint16, Int16} THEN 2
    ELSE IF b \in {Uint32, Int32} THEN 4
    ELSE IF b \in {Uint64, Int64} THEN 8
    ELSE IF b = FixExt1 THEN 2
    ELSE IF b = FixExt2 THEN 3
    ELSE IF b = FixExt4 THEN 5
    ELSE IF b = FixExt8 THEN 9
    ELSE 17

FixedWidthTags ==
    {Uint8, Uint16, Uint32, Uint64, Int8, Int16, Int32, Int64,
     FixExt1, FixExt2, FixExt4, FixExt8, FixExt16}

\* C30: all-or-nothing decode.  For every buffer content and read-cursor
\* position, decode_single( ) either advances the read cursor by the full
\* encoded length of the value it reports (1 + payload width) or does not
\* advance it at all; it never reports a fixed-width integer or FixExt result
\* with a non-zero size when the payload bytes lie beyond the end of the buffer.
C30_AllOrNothingDecode ==
    LET p == ret.sr0.position
        advance == sr.position - p
    IN (ReadingAt("decode_single") /\ ret.out.marker \in FixedWidthTags)
          => /\ advance \in {0, 1 + PayloadWidth(ret.out.marker)}
             /\ ret.out.size # Zeros(4) => advance = 1 + PayloadWidth(ret.out.marker)

====
